---- MODULE Spec2Model ----
(***************************************************************************)
(* Conversation orchestration of the chat widget.                          *)
(*                                                                         *)
(* The repository holds two revisions of the chat container:               *)
(*   "openaiOnly"  src/src/components/ChatInterface.tsx (props: apiKey)    *)
(*   "multi"       src/unnamed/part_002 (props: apiKey, apiType), mounted  *)
(*                 by src/src/pages/Index.tsx                              *)
(* `variant` fixes which one a behaviour runs; it never changes.           *)
(*                                                                         *)
(* Strings the code trims or concatenates are sequences of one-character   *)
(* strings; opaque values (keys, images, toasts) are TLA+ strings.         *)
(***************************************************************************)
EXTENDS Integers, Sequences, FiniteSets, TLC

VARIABLES
  variant,      \* which revision of ChatInterface runs
  apiKey,       \* Index: apiKey state / ChatInterface: apiKey prop
  apiType,      \* Index: apiType state / ChatInterface: apiType prop
  mounted,      \* Index renders <ChatInterface/> (apiKey truthy)
  messages,     \* ChatInterface: messages
  inputValue,   \* ChatInterface: inputValue
  isLoading,    \* ChatInterface: isLoading
  audioEnabled, \* ChatInterface: audioEnabled
  imageData,    \* ChatInterface: imageData (pending image)
  preview,      \* ImageUpload: preview
  reading,      \* ImageUpload: FileReader reads started and not yet finished
  aiService,    \* ChatInterface: aiService / openAIService
  hasAPIKey,    \* ChatInterface (openaiOnly): hasAPIKey
  transcript,   \* useSpeechRecognition: transcript
  isListening,  \* useSpeechRecognition: isListening
  isSpeaking,   \* useTextToSpeech: isSpeaking
  inflight,     \* sendMessage invocations suspended at their await
  submits,      \* history: how many submits sendMessage has accepted
  now,          \* logical time of the mounted ChatInterface (new Date())
  wire,         \* GeminiService run on its own: arguments, request, outcome
  event,        \* what the last step did (operation, toast shown, ...)
  displayed     \* the rendered list (displayMessages of the last render)

vars == << variant, apiKey, apiType, mounted, messages, inputValue, isLoading,
           audioEnabled, imageData, preview, reading, aiService, hasAPIKey,
           transcript, isListening, isSpeaking, inflight, submits, now, wire,
           event, displayed >>

\* the state of ImageUpload, the child ChatInterface renders for gemini
uploadVars == << preview, reading >>

chatVars == << messages, inputValue, isLoading, audioEnabled, imageData,
               transcript, isListening, isSpeaking, now, uploadVars >>

-----------------------------------------------------------------------------
(* Bounds *)

\* accepted submits (provider calls issued) in one behaviour
MaxSubmits == 2

\* length of the logs the display filter is probed with
MaxProbeLen == 3

\* FileReader reads ImageUpload has running at one time
MaxReads == 1

-----------------------------------------------------------------------------
(* Values *)

DEFAULT_GEMINI_API_KEY == "AIza-default"

\* a key of the user's own; it passes the OpenAI format test of APIKeyInput
CustomKeys == {"sk-custom"}

\* what a user can enter into APIKeyInput: nothing, the custom key under
\* either provider, or a key OpenAI's format test refuses
KeyEntries ==
  { << "", "gemini" >>, << "", "openai" >>, << "AIza-custom", "openai" >> }
    \cup { << k, t >> : k \in CustomKeys, t \in {"gemini", "openai"} }

NoKey == ""

NoImage == "null"

Images == {"img"}

NoService == [kind |-> "none", key |-> NoKey]

GeminiService(key) == [kind |-> "gemini", key |-> key]

OpenAIService(key) == [kind |-> "openai", key |-> key]

\* ImageUpload: preview is null, or the data URL FileReader produced, as the
\* text before the comma and the text after it
NoPreview == << >>

DataURL(base64) == << "data:image/png;base64", base64 >>

\* the size limit of handleImageChange, 5 * 1024 * 1024 bytes
MaxImageSize == 5 * 1024 * 1024

\* event.target.files?.[0]: no file, or a file of a MIME type (the text up to
\* the slash, the text after it) and a size
NoFile == [present |-> FALSE, type |-> << >>, size |-> 0]

File(type, size) == [present |-> TRUE, type |-> type, size |-> size]

Files ==
  {NoFile} \cup
  { File(type, size) : type \in { <<"image/", "png">>, <<"text/", "plain">> },
                       size \in { MaxImageSize, MaxImageSize + 1 } }

\* type.startsWith(prefix), for a prefix that ends at the slash
StartsWith(type, prefix) == Len(type) > 0 /\ type[1] = prefix

\* what a user can type into the input field
TypedTexts == { <<" ">>, <<" ", "a">> }

\* what the recognition engine can deliver
Transcripts == { <<"a", " ">> }

\* reply texts a provider can send
Replies == { <<>>, <<"r">> }

SystemPrompt == <<"S">>

NoToast == ""

\* A message of the log.  `sub` is history, not a field of the code: the
\* accepted submit a User message was created by, or an Assistant message
\* answers (0 for the System message).  `timestamp` is the logical time the
\* message was created at (the openaiOnly revision stores none).
Message(role, content, image, sub, timestamp) ==
  [role |-> role, content |-> content, imageData |-> image, sub |-> sub,
   timestamp |-> timestamp]

InitialMessages == << Message("system", SystemPrompt, NoImage, 0, 0) >>

\* no GeminiService call is being looked at on its own
NoWire == [stage |-> "none"]

-----------------------------------------------------------------------------
(* Pure helpers *)

IsSpace(ch) == ch = " "

RECURSIVE TrimStart(_)
TrimStart(s) ==
  IF s = <<>> THEN <<>>
  ELSE IF IsSpace(Head(s)) THEN TrimStart(Tail(s)) ELSE s

RECURSIVE TrimEnd(_)
TrimEnd(s) ==
  IF s = <<>> THEN <<>>
  ELSE IF IsSpace(s[Len(s)]) THEN TrimEnd(SubSeq(s, 1, Len(s) - 1)) ELSE s

\* String.prototype.trim
Trim(s) == TrimEnd(TrimStart(s))

\* JavaScript truthiness of a string
Truthy(s) == s # <<>>

IsPrefix(s, t) == Len(s) <= Len(t) /\ SubSeq(t, 1, Len(s)) = s

Last(s) == s[Len(s)]

-----------------------------------------------------------------------------
(* Provider services: what a call yields for a given transport outcome *)

\* What the network can do with one request.
\*   net    fetch resolved (FALSE: it rejected, no response)
\*   ok     response.ok (2xx)
\*   json   the body parses as JSON
\*   errMsg body.error.message ("" when absent)
\*   shape  how much of candidates[0].content.parts[0].text is there
Raw(net, ok, json, errMsg, shape, text) ==
  [net |-> net, ok |-> ok, json |-> json, errMsg |-> errMsg,
   shape |-> shape, text |-> text]

Shapes == {"noCandidates", "emptyCandidates", "noParts", "emptyParts", "text"}

RawResponses ==
  { Raw(FALSE, FALSE, FALSE, "", "noCandidates", <<>>) }
    \cup { Raw(TRUE, FALSE, j, m, "noCandidates", <<>>) :
             j \in BOOLEAN, m \in {"", "quota exceeded"} }
    \cup { Raw(TRUE, TRUE, FALSE, "", "noCandidates", <<>>) }
    \cup { Raw(TRUE, TRUE, TRUE, "", sh, <<>>) : sh \in Shapes \ {"text"} }
    \cup { Raw(TRUE, TRUE, TRUE, "", "text", t) : t \in Replies }

\* the transport outcomes the conversation is run against: no response, a
\* non-2xx with the provider's message, a 2xx with a malformed body, a reply
WireOutcomes ==
  { Raw(FALSE, FALSE, FALSE, "", "noCandidates", <<>>),
    Raw(TRUE, FALSE, TRUE, "quota exceeded", "noCandidates", <<>>),
    Raw(TRUE, TRUE, TRUE, "", "emptyCandidates", <<>>) }
    \cup { Raw(TRUE, TRUE, TRUE, "", "text", t) : t \in Replies }

\* no response belongs to the step
NoRaw == Raw(FALSE, FALSE, FALSE, "", "none", <<>>)

\* what the last step did: the operation, the toast it showed, the submit it
\* belongs to, for a call that settled the response that came back, and for
\* a change of the file input the file it carried
Event(op, toast, sub) ==
  [op |-> op, toast |-> toast, sub |-> sub, raw |-> NoRaw, file |-> NoFile]

Returned(text) == [ok |-> TRUE, text |-> text, error |-> ""]

Thrown(message) == [ok |-> FALSE, text |-> <<>>, error |-> message]

\* an extraction without the parts.length > 0 test: an empty parts list
\* yields an empty reply
GeminiOutcomeNoLengthCheck(raw, fallback, invalid) ==
  IF ~raw.net THEN Thrown("Failed to fetch")
  ELSE IF ~raw.json THEN Thrown("Unexpected token in JSON")
  ELSE IF ~raw.ok
    THEN Thrown(IF raw.errMsg # "" THEN raw.errMsg ELSE fallback)
  ELSE IF raw.shape \in {"text", "emptyParts"} THEN Returned(raw.text)
  ELSE Thrown(invalid)

\* an extraction that takes an empty reply text for a malformed response
GeminiOutcomeEmptyTextInvalid(raw, fallback, invalid) ==
  IF ~raw.net THEN Thrown("Failed to fetch")
  ELSE IF ~raw.json THEN Thrown("Unexpected token in JSON")
  ELSE IF ~raw.ok
    THEN Thrown(IF raw.errMsg # "" THEN raw.errMsg ELSE fallback)
  ELSE IF raw.shape = "text" /\ Truthy(raw.text) THEN Returned(raw.text)
  ELSE Thrown(invalid)

\* the body of both Gemini calls after the fetch: non-ok branch, then extract
GeminiOutcome(raw, fallback, invalid) ==
  IF ~raw.net THEN Thrown("Failed to fetch")
  ELSE IF ~raw.json THEN Thrown("Unexpected token in JSON")
  ELSE IF ~raw.ok
    THEN Thrown(IF raw.errMsg # "" THEN raw.errMsg ELSE fallback)
  ELSE IF raw.shape = "text" THEN Returned(raw.text)
  ELSE Thrown(invalid)

generateResponse(raw) ==
  GeminiOutcome(raw, "Failed to get response from Gemini API",
                "Invalid response format from Gemini API")

generateResponseWithImage(raw) ==
  GeminiOutcome(raw, "Failed to get response from Gemini Vision API",
                "Invalid response format from Gemini Vision API")

\* OpenAIService.generateResponse: first choice's message content, or an error
OpenAIGenerateResponse(raw) ==
  IF ~raw.net THEN Thrown("Failed to fetch")
  ELSE IF ~raw.json THEN Thrown("Unexpected token in JSON")
  ELSE IF ~raw.ok
    THEN Thrown(IF raw.errMsg # "" THEN raw.errMsg
                ELSE "Failed to get response from OpenAI API")
  ELSE IF raw.shape = "text" THEN Returned(raw.text)
  ELSE Thrown("Invalid response format from OpenAI API")

-----------------------------------------------------------------------------
(* GeminiService: the request body *)

\* the separator of the template `${systemMessage}\n\nUser: ${content}`
Separator == << "\n\nUser: " >>

\* { text }
TextPart(text) == [kind |-> "text", text |-> text, data |-> NoImage]

\* { inlineData: { mimeType: 'image/jpeg', data } }
InlineDataPart(data) == [kind |-> "inlineData", text |-> <<>>, data |-> data]

\* one entry of `contents`
Turn(role, parts) == [role |-> role, parts |-> parts]

\* message.role === 'assistant' ? 'model' : 'user'
GeminiRole(role) == IF role = "assistant" THEN "model" ELSE "user"

\* GeminiService.formatMessagesForGemini (messages carry an optional imageData)
formatMessagesForGemini(msgs) ==
  LET systemMsgs == SelectSeq(msgs, LAMBDA msg : msg.role = "system")
      systemMessage ==
        IF Len(systemMsgs) > 0 THEN systemMsgs[1].content ELSE <<>>
      nonSystemMessages == SelectSeq(msgs, LAMBDA msg : msg.role # "system")
  IN [ i \in 1..Len(nonSystemMessages) |->
         LET message == nonSystemMessages[i]
             text == IF i = 1 /\ message.role = "user" /\ Truthy(systemMessage)
                       THEN systemMessage \o Separator \o message.content
                       ELSE message.content
             image == IF message.role = "user" /\ message.imageData # NoImage
                        THEN << InlineDataPart(message.imageData) >>
                        ELSE <<>>
         IN Turn(GeminiRole(message.role), << TextPart(text) >> \o image) ]

\* the content of a message of the earlier revision: string | ImageContent
StringContent(text) == [type |-> "string", text |-> text, data |-> NoImage]

ImageContent(data) == [type |-> "image", text |-> <<>>, data |-> data]

\* the index in msgs of its n-th message that is not a system message
NthNonSystem(msgs, n) ==
  CHOOSE i \in 1..Len(msgs) :
    /\ msgs[i].role # "system"
    /\ Cardinality({ j \in 1..i : msgs[j].role # "system" }) = n

\* GeminiService.formatMessagesForGemini of the earlier revision (the content
\* of a message is a string or an image; imageParam is its optional imageData
\* parameter)
formatMessagesForGeminiEarlier(msgs, imageParam) ==
  LET count == Cardinality({ j \in 1..Len(msgs) : msgs[j].role # "system" })
  IN [ n \in 1..count |->
         LET k == NthNonSystem(msgs, n)
             message == msgs[k]
             own == IF message.content.type = "string"
                      THEN << TextPart(message.content.text) >>
                      ELSE << InlineDataPart(message.content.data) >>
             extra == IF /\ imageParam # NoImage
                         /\ k = Len(msgs)
                         /\ message.role = "user"
                        THEN << InlineDataPart(imageParam) >>
                        ELSE <<>>
         IN Turn(GeminiRole(message.role), own \o extra) ]

\* the `contents` of generateResponseWithImage: one turn without a role,
\* { text } and { inline_data: { mime_type: "image/jpeg", data } }
VisionContents(text, imageBase64) ==
  << Turn("unset",
          << TextPart(text),
             [kind |-> "inline_data", text |-> <<>>, data |-> imageBase64] >>) >>

\* the call a suspended sendMessage is waiting on
CallOutcome(path, raw) ==
  LET outcome == CASE path = "vision" -> generateResponseWithImage(raw)
                   [] path = "geminiChat" -> generateResponse(raw)
                   [] OTHER -> OpenAIGenerateResponse(raw)
  IN [ok |-> outcome.ok, text |-> outcome.text, error |-> outcome.error,
      raw |-> raw]

\* the event of a sendMessage that resumed with `result`
Received(op, toast, sub, result) ==
  [Event(op, toast, sub) EXCEPT !.raw = result.raw]

-----------------------------------------------------------------------------
(* ChatInterface *)

\* a filter that keeps the user's messages only
displayMessagesUserOnly(msgs) == SelectSeq(msgs, LAMBDA msg : msg.role = "user")

\* const displayMessages = messages.filter(msg => msg.role !== 'system')
displayMessages(msgs) == SelectSeq(msgs, LAMBDA msg : msg.role # "system")

\* every handler ends in a render
Render == displayed' = displayMessages(messages')

\* the submit button's disabled attribute
SubmitDisabled ==
  IF variant = "multi"
    THEN (~Truthy(Trim(inputValue)) /\ imageData = NoImage) \/ isLoading
    ELSE ~Truthy(Trim(inputValue)) \/ isLoading

\* a suspended sendMessage: what its closure holds
Call(sub, path, updatedMessages, audio) ==
  [sub |-> sub, path |-> path, svc |-> aiService,
   updatedMessages |-> updatedMessages, audioEnabled |-> audio,
   orphan |-> FALSE]

\* a provider branch that sends every Gemini submit down the chat call
ChoosePathNeverVision ==
  IF apiType = "gemini" THEN "geminiChat" ELSE "openaiChat"

\* the call path sendMessage picks (multi)
ChoosePath ==
  IF apiType = "gemini"
    THEN IF imageData # NoImage THEN "vision" ELSE "geminiChat"
    ELSE "openaiChat"

\* a provider branch that falls through from the vision call to the chat call
CallsForFallThrough(sub, updatedMessages) ==
  IF ChoosePath = "vision"
    THEN { Call(sub, "vision", updatedMessages, audioEnabled),
           Call(sub, "geminiChat", updatedMessages, audioEnabled) }
    ELSE { Call(sub, ChoosePath, updatedMessages, audioEnabled) }

\* the provider branch of sendMessage: the calls one submit issues
CallsFor(sub, updatedMessages) ==
  { Call(sub, ChoosePath, updatedMessages, audioEnabled) }

\* sendMessage up to its await (multi).  pendingInput is what the handler
\* has already set inputValue to.
sendMessage(userMessage, pendingInput) ==
  IF aiService = NoService
    THEN /\ event' = Event("refused", "API key is missing", 0)
         /\ inputValue' = pendingInput
         /\ UNCHANGED << messages, transcript, isLoading, inflight, submits,
                         now >>
    ELSE LET sub == submits + 1
             newUserMessage == Message("user", userMessage, imageData, sub, now + 1)
             updatedMessages == Append(messages, newUserMessage)
         IN /\ messages' = updatedMessages
            /\ inputValue' = <<>>
            /\ transcript' = <<>>
            /\ isLoading' = TRUE
            /\ inflight' = inflight \cup CallsFor(sub, updatedMessages)
            /\ submits' = sub
            /\ now' = now + 1
            /\ event' = Event("sent", NoToast, sub)

\* sendMessage (openaiOnly) without its openAIService guard
sendMessageOpenAIOnlyUnguarded(userMessage, pendingInput) ==
  LET sub == submits + 1
      updatedMessages ==
        Append(messages, Message("user", userMessage, NoImage, sub, now + 1))
  IN /\ messages' = updatedMessages
     /\ inputValue' = <<>>
     /\ transcript' = <<>>
     /\ isLoading' = TRUE
     /\ inflight' = inflight \cup
          { Call(sub, "openaiChat", updatedMessages, audioEnabled) }
     /\ submits' = sub
     /\ now' = now + 1
     /\ event' = Event("sent", NoToast, sub)

\* sendMessage up to its await (openaiOnly)
sendMessageOpenAIOnly(userMessage, pendingInput) ==
  IF aiService = NoService
    THEN /\ event' = Event("refused", "OpenAI API key is missing", 0)
         /\ inputValue' = pendingInput
         /\ UNCHANGED << messages, transcript, isLoading, inflight, submits,
                         now >>
    ELSE LET sub == submits + 1
             updatedMessages ==
               Append(messages, Message("user", userMessage, NoImage, sub, now + 1))
         IN /\ messages' = updatedMessages
            /\ inputValue' = <<>>
            /\ transcript' = <<>>
            /\ isLoading' = TRUE
            /\ inflight' = inflight \cup
                 { Call(sub, "openaiChat", updatedMessages, audioEnabled) }
            /\ submits' = sub
            /\ now' = now + 1
            /\ event' = Event("sent", NoToast, sub)

\* the toast of sendMessage's catch block
CatchToast(error) == IF error # "" THEN error ELSE "Failed to get a response"

\* sendMessage after its await, with setIsLoading(false) at the end of the
\* try block instead of in finally
sendMessageSettledNoFinally(c, result) ==
  /\ inflight' = inflight \ {c}
  /\ imageData' = NoImage
  /\ IF result.ok
       THEN /\ messages' = Append(c.updatedMessages,
                 Message("assistant", result.text, NoImage, c.sub, now + 1))
            /\ isLoading' = FALSE
            /\ now' = now + 1
            /\ isSpeaking' = (c.audioEnabled \/ isSpeaking)
            /\ event' = Received("resolved", NoToast, c.sub, result)
       ELSE /\ event' = Received("rejected", CatchToast(result.error), c.sub,
                                 result)
            /\ UNCHANGED << messages, isSpeaking, isLoading, now >>

\* sendMessage after its await, storing the reply under the wrong role
sendMessageSettledWrongRole(c, result) ==
  /\ inflight' = inflight \ {c}
  /\ isLoading' = FALSE
  /\ imageData' = NoImage
  /\ IF result.ok
       THEN /\ messages' = Append(c.updatedMessages,
                 Message("system", result.text, NoImage, c.sub, now + 1))
            /\ now' = now + 1
            /\ isSpeaking' = (c.audioEnabled \/ isSpeaking)
            /\ event' = Received("resolved", NoToast, c.sub, result)
       ELSE /\ event' = Received("rejected", CatchToast(result.error), c.sub,
                                 result)
            /\ UNCHANGED << messages, isSpeaking, now >>

\* sendMessage after its await: append the reply or toast, then finally
\* (multi).  The closure's updatedMessages and audioEnabled are used.
sendMessageSettled(c, result) ==
  /\ inflight' = inflight \ {c}
  /\ isLoading' = FALSE
  /\ imageData' = NoImage
  /\ IF result.ok
       THEN LET newAiMessage ==
                  Message("assistant", result.text, NoImage, c.sub, now + 1)
            IN /\ messages' = Append(c.updatedMessages, newAiMessage)
               /\ now' = now + 1
               /\ isSpeaking' = (c.audioEnabled \/ isSpeaking)
               /\ event' = Received("resolved", NoToast, c.sub, result)
       ELSE /\ event' = Received("rejected", CatchToast(result.error), c.sub,
                                 result)
            /\ UNCHANGED << messages, isSpeaking, now >>

\* sendMessage after its await (openaiOnly), appending the reply to the log
\* of the moment instead of the log captured at submit time
sendMessageSettledOntoCurrentLog(c, result) ==
  /\ inflight' = inflight \ {c}
  /\ isLoading' = FALSE
  /\ UNCHANGED imageData
  /\ IF result.ok
       THEN /\ messages' = Append(messages,
                 Message("assistant", result.text, NoImage, c.sub, now + 1))
            /\ now' = now + 1
            /\ isSpeaking' = (c.audioEnabled \/ isSpeaking)
            /\ event' = Received("resolved", NoToast, c.sub, result)
       ELSE /\ event' = Received("rejected", CatchToast(result.error), c.sub,
                                 result)
            /\ UNCHANGED << messages, isSpeaking, now >>

\* sendMessage after its await (openaiOnly)
sendMessageSettledOpenAIOnly(c, result) ==
  /\ inflight' = inflight \ {c}
  /\ isLoading' = FALSE
  /\ UNCHANGED imageData
  /\ IF result.ok
       THEN /\ messages' = Append(c.updatedMessages,
                 Message("assistant", result.text, NoImage, c.sub, now + 1))
            /\ now' = now + 1
            /\ isSpeaking' = (c.audioEnabled \/ isSpeaking)
            /\ event' = Received("resolved", NoToast, c.sub, result)
       ELSE /\ event' = Received("rejected", CatchToast(result.error), c.sub,
                                 result)
            /\ UNCHANGED << messages, isSpeaking, now >>

\* the same continuation when its component instance has been unmounted:
\* the state setters do nothing, the toast still shows
SettledAfterUnmount(c, result) ==
  /\ inflight' = inflight \ {c}
  /\ event' = Event("orphan",
                    IF result.ok THEN NoToast ELSE CatchToast(result.error),
                    c.sub)
  /\ UNCHANGED << messages, isSpeaking, isLoading, imageData, now >>

propsVars == << variant, apiKey, apiType, mounted, aiService, hasAPIKey >>

\* the provider answers call c (or the request fails) and sendMessage resumes
SettleCall(c) ==
  \E raw \in WireOutcomes :
    /\ IF c.orphan THEN SettledAfterUnmount(c, CallOutcome(c.path, raw))
       ELSE IF variant = "multi"
         THEN sendMessageSettled(c, CallOutcome(c.path, raw))
         ELSE sendMessageSettledOpenAIOnly(c, CallOutcome(c.path, raw))
    /\ UNCHANGED << wire, uploadVars, propsVars,
                    inputValue, audioEnabled, transcript,
                    isListening, submits >>
    /\ Render

Settle == \E c \in inflight : SettleCall(c)

\* handleInputChange (the input is disabled while listening in openaiOnly)
HandleInputChange ==
  \E text \in TypedTexts :
    /\ mounted
    /\ variant = "openaiOnly" => ~isListening
    /\ inputValue' = text
    /\ event' = Event("ui", NoToast, 0)
    /\ UNCHANGED << wire, uploadVars, propsVars,
                    messages, isLoading, audioEnabled, imageData,
                    transcript, isListening, isSpeaking, inflight, submits,
                    now >>
    /\ Render

\* handleSubmit, reached through the form: the send button or Enter, both
\* unavailable while the button is disabled
HandleSubmit ==
  /\ mounted
  /\ ~SubmitDisabled
  /\ submits < MaxSubmits
  /\ LET message == Trim(inputValue)
     IN IF Truthy(message)
          THEN IF variant = "multi"
                 THEN sendMessage(message, inputValue)
                 ELSE sendMessageOpenAIOnly(message, inputValue)
          ELSE /\ event' = Event("ignored", NoToast, 0)
               /\ UNCHANGED << messages, inputValue, transcript, isLoading,
                               inflight, submits, now >>
  /\ UNCHANGED << wire, uploadVars, propsVars,
                  audioEnabled, imageData, isListening,
                  isSpeaking >>
  /\ Render

\* the speech effect copying the transcript whether or not it is empty
SpeechEffectCopiesAlways ==
  /\ inputValue' = transcript
  /\ event' = Event("micOff", NoToast, 0)
  /\ UNCHANGED << messages, transcript, isLoading, inflight, submits, now >>

\* the speech effect of the multi revision: copy the transcript, never submit
SpeechEffect ==
  /\ inputValue' = IF Truthy(transcript) THEN transcript ELSE inputValue
  /\ event' = Event("micOff", NoToast, 0)
  /\ UNCHANGED << messages, transcript, isLoading, inflight, submits, now >>

\* the speech effect of the openaiOnly revision: copy the transcript and call
\* handleSubmit, which reads the inputValue of the render the effect belongs to
SpeechEffectSubmits ==
  Truthy(transcript) /\ Truthy(Trim(transcript)) /\ Truthy(Trim(inputValue))

SpeechEffectOpenAIOnly ==
  IF SpeechEffectSubmits
    THEN sendMessageOpenAIOnly(Trim(inputValue), transcript)
    ELSE SpeechEffect

\* toggleMic, with the effect that runs when isListening turns false
ToggleMic ==
  /\ mounted
  /\ IF isListening
       THEN /\ isListening' = FALSE
            /\ IF variant = "multi" THEN SpeechEffect
               ELSE /\ SpeechEffectSubmits => submits < MaxSubmits
                    /\ SpeechEffectOpenAIOnly
       ELSE /\ isListening' = TRUE
            /\ transcript' = <<>>
            /\ event' = Event("ui", NoToast, 0)
            /\ UNCHANGED << messages, inputValue, isLoading, inflight, submits,
                            now >>
  /\ UNCHANGED << wire, uploadVars, propsVars,
                  audioEnabled, imageData, isSpeaking >>
  /\ Render

\* the recognition engine delivers a transcript while the session is active
SpeechResult ==
  \E text \in Transcripts :
    /\ mounted
    /\ isListening
    /\ transcript' = text
    /\ event' = Event("ui", NoToast, 0)
    /\ UNCHANGED << wire, uploadVars, propsVars,
                    messages, inputValue, isLoading, audioEnabled,
                    imageData, isListening, isSpeaking, inflight, submits,
                    now >>
    /\ Render

\* toggleAudio flipping the setting without stopping the utterance
ToggleAudioKeepsSpeaking ==
  /\ mounted
  /\ audioEnabled' = ~audioEnabled
  /\ event' = Event(IF isSpeaking THEN "stopSpeaking" ELSE "ui", NoToast, 0)
  /\ UNCHANGED << wire, uploadVars, propsVars,
                  messages, inputValue, isLoading, imageData,
                  transcript, isListening, isSpeaking, inflight, submits, now >>
  /\ Render

\* toggleAudio: flip the setting and, when an utterance is playing, stop it
ToggleAudio ==
  /\ mounted
  /\ audioEnabled' = ~audioEnabled
  /\ isSpeaking' = FALSE
  /\ event' = Event(IF isSpeaking THEN "stopSpeaking" ELSE "ui", NoToast, 0)
  /\ UNCHANGED << wire, uploadVars, propsVars,
                  messages, inputValue, isLoading, imageData,
                  transcript, isListening, inflight, submits, now >>
  /\ Render

\* the synthesis engine finishes the utterance
UtteranceEnd ==
  /\ mounted
  /\ isSpeaking
  /\ isSpeaking' = FALSE
  /\ event' = Event("ui", NoToast, 0)
  /\ UNCHANGED << wire, uploadVars, propsVars,
                  messages, inputValue, isLoading, audioEnabled,
                  imageData, transcript, isListening, inflight, submits, now >>
  /\ Render

\* the error effect: a speech hook reports an error of the running session or
\* utterance and a toast shows it
ErrorEffect ==
  \E kind \in {"speechError", "ttsError"} :
    /\ mounted
    /\ IF kind = "speechError" THEN isListening ELSE isSpeaking
    /\ event' = Event(kind,
                      IF kind = "speechError"
                        THEN "Speech recognition error"
                        ELSE "Text-to-speech error",
                      0)
    /\ UNCHANGED << wire, uploadVars, propsVars,
                    messages, inputValue, isLoading, audioEnabled,
                    imageData, transcript, isListening, isSpeaking, inflight,
                    submits, now >>
    /\ Render

\* handleImageSelect: ImageUpload is rendered only for gemini
HandleImageSelect ==
  \E base64Image \in Images \cup {NoImage} :
    /\ mounted
    /\ variant = "multi"
    /\ apiType = "gemini"
    /\ imageData' = base64Image
    /\ event' = Event("ui", NoToast, 0)
    /\ UNCHANGED << wire, uploadVars, propsVars,
                    messages, inputValue, isLoading, audioEnabled,
                    transcript, isListening, isSpeaking, inflight, submits,
                    now >>
    /\ Render

-----------------------------------------------------------------------------
(* ImageUpload, rendered by ChatInterface (multi) for gemini.  Its calls of   *)
(* onImageSelect are what HandleImageSelect stands for; the actions below put *)
(* the component itself in that place.                                        *)

ImageUploadRendered == mounted /\ variant = "multi" /\ apiType = "gemini"

TooLargeToast == "Image is too large. Please select an image under 5MB."

FileEvent(op, toast, file) == [Event(op, toast, 0) EXCEPT !.file = file]

\* a handleImageChange whose rejections also drop the image held so far
HandleImageChangeRejectClears ==
  \E file \in Files :
    /\ ImageUploadRendered
    /\ IF ~file.present
         THEN /\ preview' = NoPreview
              /\ imageData' = NoImage
              /\ event' = FileEvent("imageChange", NoToast, file)
              /\ UNCHANGED reading
         ELSE IF ~StartsWith(file.type, "image/")
           THEN /\ preview' = NoPreview
                /\ imageData' = NoImage
                /\ event' = FileEvent("imageChange",
                                      "Please select an image file", file)
                /\ UNCHANGED reading
           ELSE IF file.size > MaxImageSize
             THEN /\ preview' = NoPreview
                  /\ imageData' = NoImage
                  /\ event' = FileEvent("imageChange", TooLargeToast, file)
                  /\ UNCHANGED reading
             ELSE /\ reading < MaxReads
                  /\ reading' = reading + 1
                  /\ event' = FileEvent("imageChange", NoToast, file)
                  /\ UNCHANGED << preview, imageData >>
    /\ UNCHANGED << wire, propsVars, messages, inputValue, isLoading,
                    audioEnabled, transcript, isListening, isSpeaking,
                    inflight, submits, now >>
    /\ Render

\* handleImageChange: the change event of the file input.  The file dialog can
\* have been opened before a preview replaced the "Attach Image" label.
HandleImageChange ==
  \E file \in Files :
    /\ ImageUploadRendered
    /\ IF ~file.present
         THEN /\ preview' = NoPreview
              /\ imageData' = NoImage
              /\ event' = FileEvent("imageChange", NoToast, file)
              /\ UNCHANGED reading
         ELSE IF ~StartsWith(file.type, "image/")
           THEN /\ event' = FileEvent("imageChange",
                                      "Please select an image file", file)
                /\ UNCHANGED << preview, imageData, reading >>
           ELSE IF file.size > MaxImageSize
             THEN /\ event' = FileEvent("imageChange", TooLargeToast, file)
                  /\ UNCHANGED << preview, imageData, reading >>
             ELSE /\ reading < MaxReads
                  /\ reading' = reading + 1
                  /\ event' = FileEvent("imageChange", NoToast, file)
                  /\ UNCHANGED << preview, imageData >>
    /\ UNCHANGED << wire, propsVars, messages, inputValue, isLoading,
                    audioEnabled, transcript, isListening, isSpeaking,
                    inflight, submits, now >>
    /\ Render

\* reader.onload: a read finishes; the preview gets the data URL and
\* ChatInterface the base64 text after its comma
ReaderLoad ==
  \E base64 \in Images :
    LET result == DataURL(base64)
        base64String == result[2]
    IN /\ ImageUploadRendered
       /\ reading > 0
       /\ reading' = reading - 1
       /\ preview' = result
       /\ imageData' = base64String
       /\ event' = Event("imageLoaded", NoToast, 0)
       /\ UNCHANGED << wire, propsVars, messages, inputValue, isLoading,
                       audioEnabled, transcript, isListening, isSpeaking,
                       inflight, submits, now >>
       /\ Render

\* reader.onerror: a read fails
ReaderError ==
  /\ ImageUploadRendered
  /\ reading > 0
  /\ reading' = reading - 1
  /\ event' = Event("imageError", "Error reading image file", 0)
  /\ UNCHANGED << wire, propsVars, messages, inputValue, isLoading,
                  audioEnabled, imageData, preview, transcript, isListening,
                  isSpeaking, inflight, submits, now >>
  /\ Render

\* clearImage: the button shown on the preview
ClearImage ==
  /\ ImageUploadRendered
  /\ preview # NoPreview
  /\ preview' = NoPreview
  /\ imageData' = NoImage
  /\ event' = Event("imageCleared", NoToast, 0)
  /\ UNCHANGED << wire, propsVars, messages, inputValue, isLoading,
                  audioEnabled, reading, transcript, isListening, isSpeaking,
                  inflight, submits, now >>
  /\ Render

-----------------------------------------------------------------------------
(* Index and APIKeyInput (multi); the parent of the openaiOnly revision *)

\* the "Initialize AI service" effect, for the props about to be rendered
InitializeAIService(key, type) ==
  IF key # NoKey
    THEN IF type = "gemini" THEN GeminiService(key) ELSE OpenAIService(key)
    ELSE NoService

\* useState initial values of a ChatInterface instance
FreshChat ==
  /\ messages' = InitialMessages
  /\ inputValue' = <<>>
  /\ isLoading' = FALSE
  /\ audioEnabled' = TRUE
  /\ imageData' = NoImage
  /\ transcript' = <<>>
  /\ isListening' = FALSE
  /\ isSpeaking' = FALSE
  /\ now' = 0
  /\ preview' = NoPreview
  /\ reading' = 0

\* Index stops rendering ChatInterface: its state is gone, its suspended
\* sendMessage calls live on without a component (what their closures hold
\* can no longer reach any state, so it is dropped)
Unmount ==
  /\ mounted' = FALSE
  /\ aiService' = NoService
  /\ FreshChat
  /\ inflight' = { [c EXCEPT !.orphan = TRUE, !.updatedMessages = <<>>,
                            !.audioEnabled = FALSE] : c \in inflight }

\* resetApiKey
ResetApiKey ==
  /\ variant = "multi"
  /\ mounted
  /\ IF apiType = "gemini"
       THEN /\ apiKey' = DEFAULT_GEMINI_API_KEY
            /\ aiService' = InitializeAIService(DEFAULT_GEMINI_API_KEY, apiType)
            /\ event' = Event("ui", NoToast, 0)
            /\ UNCHANGED << mounted, chatVars, inflight >>
       ELSE /\ apiKey' = NoKey
            /\ event' = Event("ui", NoToast, 0)
            /\ Unmount
  /\ UNCHANGED << wire, variant, apiType, hasAPIKey, submits >>
  /\ Render

\* "Switch API Provider": setApiKey('')
SwitchProvider ==
  /\ variant = "multi"
  /\ mounted
  /\ apiKey' = NoKey
  /\ event' = Event("ui", NoToast, 0)
  /\ Unmount
  /\ UNCHANGED << wire, variant, apiType, hasAPIKey, submits >>
  /\ Render

\* the OpenAI format test of APIKeyInput (startsWith('sk-'), length >= 20)
LooksLikeOpenAIKey(key) == key \in {"sk-custom"}

\* APIKeyInput.handleSubmit and Index.handleAPIKeySubmit
HandleAPIKeySubmit ==
  \E entry \in KeyEntries :
   LET key == entry[1]
       type == entry[2]
   IN
    /\ variant = "multi"
    /\ ~mounted
    /\ IF key = NoKey
         THEN /\ event' = Event("ui", NoToast, 0)
              /\ UNCHANGED << apiKey, apiType, mounted, aiService >>
         ELSE IF type = "openai" /\ ~LooksLikeOpenAIKey(key)
           THEN /\ event' = Event("ui", NoToast, 0)
                /\ UNCHANGED << apiKey, apiType, mounted, aiService >>
           ELSE /\ apiKey' = key
                /\ apiType' = type
                /\ mounted' = TRUE
                /\ aiService' = InitializeAIService(key, type)
                /\ event' = Event("ui", NoToast, 0)
    /\ UNCHANGED << wire, variant, hasAPIKey, chatVars, inflight, submits >>
    /\ Render

\* the parent of the openaiOnly revision passes another apiKey prop; the
\* "Initialize OpenAI service" effect follows
SetApiKeyProp ==
  \E key \in CustomKeys \cup {NoKey} :
    /\ variant = "openaiOnly"
    /\ key # apiKey
    /\ apiKey' = key
    /\ aiService' = IF key # NoKey THEN OpenAIService(key) ELSE aiService
    /\ hasAPIKey' = (key # NoKey)
    /\ event' = Event("ui", NoToast, 0)
    /\ UNCHANGED << wire, variant, apiType, mounted, chatVars, inflight, submits >>
    /\ Render

-----------------------------------------------------------------------------
(* Specification *)

Init ==
  /\ variant \in {"multi", "openaiOnly"}
  /\ apiKey = IF variant = "multi" THEN DEFAULT_GEMINI_API_KEY ELSE NoKey
  /\ apiType = IF variant = "multi" THEN "gemini" ELSE "openai"
  /\ mounted = TRUE
  /\ aiService = InitializeAIService(apiKey, apiType)
  /\ hasAPIKey = (apiKey # NoKey)
  /\ messages = InitialMessages
  /\ inputValue = <<>>
  /\ isLoading = FALSE
  /\ audioEnabled = TRUE
  /\ imageData = NoImage
  /\ preview = NoPreview
  /\ reading = 0
  /\ transcript = <<>>
  /\ isListening = FALSE
  /\ isSpeaking = FALSE
  /\ inflight = {}
  /\ submits = 0
  /\ now = 0
  /\ wire = NoWire
  /\ event = Event("init", NoToast, 0)
  /\ displayed = displayMessages(messages)

Next ==
  \/ HandleInputChange
  \/ HandleSubmit
  \/ ToggleMic
  \/ SpeechResult
  \/ ToggleAudio
  \/ UtteranceEnd
  \/ ErrorEffect
  \/ HandleImageSelect
  \/ Settle
  \/ ResetApiKey
  \/ SwitchProvider
  \/ HandleAPIKeySubmit
  \/ SetApiKeyProp

Spec == Init /\ [][Next]_vars

\* every provider call eventually resolves or rejects
FairSpec ==
  Spec /\ \A n \in 1..MaxSubmits :
            WF_vars(\E c \in inflight : c.sub = n /\ SettleCall(c))

-----------------------------------------------------------------------------
(* ChatInterface (multi) under a parent other than Index *)

\* A parent re-renders the mounted ChatInterface with another apiType prop;
\* the "Initialize AI service" effect follows and the component state stays.
\* Index never does this (it changes apiType only while ChatInterface is
\* unmounted), so this step is no part of Next.
SetApiTypeProp ==
  \E type \in {"gemini", "openai"} :
    /\ variant = "multi"
    /\ mounted
    /\ type # apiType
    /\ apiType' = type
    /\ aiService' = InitializeAIService(apiKey, type)
    /\ event' = Event("ui", NoToast, 0)
    /\ UNCHANGED << wire, variant, apiKey, mounted, hasAPIKey, chatVars,
                    inflight, submits >>
    /\ Render

NextAnyParent == Next \/ SetApiTypeProp

\* the component driven through its whole interface, props included
SpecAnyParent == Init /\ [][NextAnyParent]_vars

-----------------------------------------------------------------------------
(* ChatInterface (multi) together with its ImageUpload *)

InitUpload == Init /\ variant = "multi"

\* the microphone and the speech output are left alone: no step of theirs
\* reads or writes the image
NextUpload ==
  \/ HandleInputChange
  \/ HandleSubmit
  \/ HandleImageChange
  \/ ReaderLoad
  \/ ReaderError
  \/ ClearImage
  \/ Settle
  \/ ResetApiKey
  \/ SwitchProvider
  \/ HandleAPIKeySubmit

SpecUpload == InitUpload /\ [][NextUpload]_vars

-----------------------------------------------------------------------------
(* The display filter on arbitrary logs *)

\* messages a log can be built from, in any order
ProbeMessages ==
  { Message(role, content, NoImage, 0, 0) :
      role \in {"system", "user", "assistant"}, content \in {<<"a">>, <<"r">>} }

InitDisplay ==
  /\ variant = "multi"
  /\ apiKey = DEFAULT_GEMINI_API_KEY
  /\ apiType = "gemini"
  /\ mounted = TRUE
  /\ aiService = InitializeAIService(apiKey, apiType)
  /\ hasAPIKey = TRUE
  /\ messages = <<>>
  /\ inputValue = <<>>
  /\ isLoading = FALSE
  /\ audioEnabled = TRUE
  /\ imageData = NoImage
  /\ preview = NoPreview
  /\ reading = 0
  /\ transcript = <<>>
  /\ isListening = FALSE
  /\ isSpeaking = FALSE
  /\ inflight = {}
  /\ submits = 0
  /\ now = 0
  /\ wire = NoWire
  /\ event = Event("init", NoToast, 0)
  /\ displayed = displayMessages(messages)

\* the log grows by any message and the component renders it
AppendAndRender ==
  \E msg \in ProbeMessages :
    /\ Len(messages) < MaxProbeLen
    /\ messages' = Append(messages, msg)
    /\ event' = Event("ui", NoToast, 0)
    /\ UNCHANGED << wire, uploadVars, propsVars,
                    inputValue, isLoading, audioEnabled, imageData,
                    transcript, isListening, isSpeaking, inflight, submits,
                    now >>
    /\ Render

SpecDisplay == InitDisplay /\ [][AppendAndRender]_vars

-----------------------------------------------------------------------------
(* GeminiService called on its own, with any arguments its types allow *)

\* Message of the current revision: { role, content, imageData? }
GeminiMessage(role, content, image) ==
  [role |-> role, content |-> content, imageData |-> image]

\* Message of the earlier revision: { role, content: string | ImageContent }
EarlierMessage(role, content) == [role |-> role, content |-> content]

\* messages the conversations handed to the current serializer are built from
GeminiProbeMessages ==
  { GeminiMessage("system", content, image) :
      content \in { <<"S">>, <<>> }, image \in Images \cup {NoImage} }
    \cup { GeminiMessage(role, content, image) :
             role \in {"user", "assistant"},
             content \in { <<"a">>, <<"b">> },
             image \in Images \cup {NoImage} }

\* messages the conversations handed to the earlier serializer are built from
EarlierProbeMessages ==
  { EarlierMessage("system", StringContent(<<"S">>)) }
    \cup { EarlierMessage(role, content) :
             role \in {"user", "assistant"},
             content \in { StringContent(<<"a">>) }
                           \cup { ImageContent(data) : data \in Images } }

\* the sequences over S of length n at most
SeqsUpTo(S, n) == UNION { [1..k -> S] : k \in 0..n }

NoResult == Thrown("no call made")

\* a call of `method` with its arguments, before anything is done
WireArgs(revision, method, msgs, text, image) ==
  [stage |-> "args", revision |-> revision, method |-> method,
   messages |-> msgs, text |-> text, imageData |-> image,
   contents |-> <<>>, raw |-> NoRaw, result |-> NoResult]

GeminiArguments ==
  { WireArgs("current", "generateResponse", msgs, <<>>, NoImage) :
      msgs \in SeqsUpTo(GeminiProbeMessages, MaxProbeLen) }
    \cup { WireArgs("earlier", "generateResponse", msgs, <<>>, image) :
             msgs \in SeqsUpTo(EarlierProbeMessages, MaxProbeLen),
             image \in Images \cup {NoImage} }
    \cup { WireArgs(revision, "generateResponseWithImage", <<>>, text, image) :
             revision \in {"current", "earlier"},
             text \in { <<>>, <<"a">> }, image \in Images }

InitGemini ==
  /\ variant = "multi"
  /\ apiKey = DEFAULT_GEMINI_API_KEY
  /\ apiType = "gemini"
  /\ mounted = TRUE
  /\ aiService = InitializeAIService(apiKey, apiType)
  /\ hasAPIKey = TRUE
  /\ messages = InitialMessages
  /\ inputValue = <<>>
  /\ isLoading = FALSE
  /\ audioEnabled = TRUE
  /\ imageData = NoImage
  /\ preview = NoPreview
  /\ reading = 0
  /\ transcript = <<>>
  /\ isListening = FALSE
  /\ isSpeaking = FALSE
  /\ inflight = {}
  /\ submits = 0
  /\ now = 0
  /\ wire \in GeminiArguments
  /\ event = Event("init", NoToast, 0)
  /\ displayed = displayMessages(messages)

\* the method builds the `contents` of its request body
BuildRequest ==
  /\ wire.stage = "args"
  /\ wire' =
       [wire EXCEPT
          !.stage = "request",
          !.contents =
             IF wire.method = "generateResponseWithImage"
               THEN VisionContents(wire.text, wire.imageData)
               ELSE IF wire.revision = "current"
                 THEN formatMessagesForGemini(wire.messages)
                 ELSE formatMessagesForGeminiEarlier(wire.messages,
                                                     wire.imageData)]
  /\ UNCHANGED << propsVars, chatVars, inflight, submits, event, displayed >>

\* the fetch settles and the method returns or throws; the arguments and the
\* request are not needed any more
ReceiveResponse ==
  \E raw \in RawResponses :
    /\ wire.stage = "request"
    /\ wire' =
         [WireArgs(wire.revision, wire.method, <<>>, <<>>, NoImage) EXCEPT
            !.stage = "outcome",
            !.raw = raw,
            !.result = IF wire.method = "generateResponseWithImage"
                         THEN generateResponseWithImage(raw)
                         ELSE generateResponse(raw)]
    /\ UNCHANGED << propsVars, chatVars, inflight, submits, event, displayed >>

NextGemini == BuildRequest \/ ReceiveResponse

SpecGemini == InitGemini /\ [][NextGemini]_vars

-----------------------------------------------------------------------------
(* Properties *)

\* the calls of the mounted ChatInterface that have not settled
Outstanding == { c \in inflight : ~c.orphan }

\* C1: at most one provider call is outstanding for a ChatInterface in every
\* reachable state, whatever path triggered the submits.
C1_AtMostOneOutstandingCall == Cardinality(Outstanding) <= 1

\* C2: when a call settles after the session it was issued through has been
\* replaced (credential or provider changed), its reply is discarded: the
\* message log is left as it is.
C2_StaleReplyDiscarded ==
  [][ \A c \in Outstanding :
        (c \notin inflight' /\ c.svc # aiService) => messages' = messages ]_vars

\* C3: after the call of a submit has failed, the log ends with that submit's
\* User message, holds no Assistant message for it, and isLoading is false.
C3_FailureLeavesUserMessageLast ==
  event.op = "rejected" =>
    /\ Last(messages).role = "user"
    /\ Last(messages).sub = event.sub
    /\ \A i \in 1..Len(messages) :
         messages[i].role = "assistant" => messages[i].sub # event.sub
    /\ ~isLoading


\* C4: every entry into Sending is eventually followed by Idle, on success and
\* on every kind of failure, when every call eventually resolves or rejects.
C4_SendingLeadsToIdle == isLoading ~> ~isLoading

\* a request failed and the controller is back in Idle
C4_Reached == event.op = "rejected" /\ ~isLoading /\ Outstanding = {}

\* C5: a submit made while no provider session exists is refused: an error is
\* shown, isLoading stays false, no call is issued, and the log and the pending
\* image are unchanged; so is the input text of a form submit (when the speech
\* effect of the openaiOnly revision is what submits, the input holds the
\* transcript the effect has just copied into it).
C5_NoSessionSubmitRefused ==
  [][ (mounted /\ aiService = NoService /\ event'.op \in {"sent", "refused"}) =>
        /\ event'.op = "refused"
        /\ event'.toast # NoToast
        /\ ~isLoading'
        /\ inflight' = inflight
        /\ submits' = submits
        /\ messages' = messages
        /\ imageData' = imageData
        /\ inputValue' = IF isListening /\ ~isListening'
                           THEN transcript ELSE inputValue ]_vars

\* a submit has been refused for want of a session, with text in the input
C5_Reached ==
  /\ event.op = "refused"
  /\ aiService = NoService
  /\ Truthy(Trim(inputValue))
  /\ Len(messages) = 1

\* C6: the log is append-only: across every step of a mounted ChatInterface the
\* previous log is a prefix of the new one.
C6_LogAppendOnly ==
  [][ (mounted /\ mounted') => IsPrefix(messages, messages') ]_vars

\* C7: the log holds at most one System message, and only at its first index.
C7_SystemMessageOnlyFirst ==
  \A i \in 1..Len(messages) : messages[i].role = "system" => i = 1

\* two submits have been answered and the log still starts with the System
\* message
C7_Reached ==
  /\ Len(messages) = 5
  /\ messages[1].role = "system"
  /\ messages[5].role = "assistant"

NonSystemIndexes(msgs) == { i \in 1..Len(msgs) : msgs[i].role # "system" }

\* C8: the displayed view is exactly the non-System messages of the log, in
\* their order in the log: the k-th of them is the k-th entry displayed.
C8_DisplayIsNonSystemInOrder ==
  LET idx == NonSystemIndexes(messages)
  IN /\ Len(displayed) = Cardinality(idx)
     /\ \A i \in idx :
          displayed[Cardinality({ j \in idx : j <= i })] = messages[i]

\* a log with a System message between two others has been rendered
C8_Reached ==
  /\ Len(messages) = 3
  /\ messages[1].role = "assistant"
  /\ messages[2].role = "system"
  /\ messages[3].role = "user"
  /\ Len(displayed) = 2

AssistantIndexes(msgs) == { i \in 1..Len(msgs) : msgs[i].role = "assistant" }

\* every Assistant message directly follows the User message of the submit it
\* answers, and no submit has two replies in the log
RepliesFollowTheirSubmit ==
  \A i \in AssistantIndexes(messages) :
    /\ i > 1
    /\ messages[i - 1].role = "user"
    /\ messages[i - 1].sub = messages[i].sub
    /\ \A j \in AssistantIndexes(messages) :
         messages[j].sub = messages[i].sub => j = i

\* the replies stand in the log in the order they arrived (their timestamps)
RepliesInArrivalOrder ==
  \A i, j \in AssistantIndexes(messages) :
    i < j => messages[i].timestamp < messages[j].timestamp

\* a reply that has just arrived is the last message of the log
ArrivedReplyIsLast ==
  event.op = "resolved" =>
    /\ Last(messages).role = "assistant"
    /\ Last(messages).sub = event.sub
    /\ Last(messages).timestamp = now

\* C9: every Assistant message answers exactly one accepted submit and stands
\* directly after that submit's User message; replies stand in the log in the
\* order they arrived, each one appended last when it arrives, and are never
\* attached to another submit's message.
C9_RepliesAdjacentInArrivalOrder ==
  /\ RepliesFollowTheirSubmit
  /\ RepliesInArrivalOrder
  /\ ArrivedReplyIsLast

\* two submits have each been answered in the log
C9_Reached ==
  /\ Cardinality(AssistantIndexes(messages)) = 2
  /\ messages[Len(messages)].sub = 2

\* C10: each accepted submit issues exactly one provider call (vision or chat,
\* never both) and no step other than an accepted submit issues one: a failed
\* call is not retried.
C10_OneCallPerSubmit ==
  [][ /\ submits' \in {submits, submits + 1}
      /\ submits' = submits + 1 =>
           /\ Cardinality(inflight') = Cardinality(inflight) + 1
           /\ Cardinality({ c \in inflight' : c.sub = submits' }) = 1
      /\ submits' = submits =>
           { c.sub : c \in inflight' } \subseteq { c.sub : c \in inflight } ]_vars

\* a submit with an image went out as the vision call, failed, and nothing is
\* in flight afterwards
C10_Reached ==
  /\ event.op = "rejected"
  /\ inflight = {}
  /\ \E i \in 1..Len(messages) :
       messages[i].imageData # NoImage /\ messages[i].sub = event.sub

\* C11: a submit of text with a pending image under the Gemini provider issues
\* the one-shot vision call and no other, and appends exactly one User message
\* carrying that image; when that call succeeds exactly one Assistant message
\* is appended, when it fails none is, and the pending image is null after
\* either.
C11_ImageSubmitTakesVisionPath ==
  [][ /\ ( /\ variant = "multi"
           /\ apiType = "gemini"
           /\ imageData # NoImage
           /\ event'.op = "sent" ) =>
             /\ \E c \in inflight' :
                  /\ c \notin inflight
                  /\ inflight' = inflight \cup {c}
                  /\ c.path = "vision"
             /\ messages' =
                  Append(messages, [Last(messages') EXCEPT !.role = "user",
                                                           !.imageData = imageData])
      /\ \A c \in Outstanding :
           (c.path = "vision" /\ event'.op \in {"resolved", "rejected"}
              /\ event'.sub = c.sub) =>
             /\ imageData' = NoImage
             /\ event'.op = "rejected" => messages' = messages
             /\ event'.op = "resolved" =>
                  messages' =
                    Append(messages,
                           [Last(messages') EXCEPT !.role = "assistant"]) ]_vars

\* a submit with an image has been answered: its User message carries the
\* image, the reply follows it, and no image is pending
C11_Reached ==
  /\ event.op = "resolved"
  /\ Len(messages) = 3
  /\ messages[2].role = "user"
  /\ messages[2].imageData \in Images
  /\ messages[3].role = "assistant"
  /\ imageData = NoImage

\* C12: the step that accepts a submit and appends its User message also
\* clears the pending image, before the call resolves, and imageData is never
\* stored on an Assistant or System message.
C12_PendingImageClearedAtSubmit ==
  [][ /\ event'.op = "sent" => imageData' = NoImage
      /\ \A i \in 1..Len(messages') :
           messages'[i].imageData # NoImage => messages'[i].role = "user" ]_vars

\* C13: a submit that carries an image while the provider is OpenAI is refused
\* with an error by sendMessage itself: no call to OpenAI is ever issued for a
\* User message that stores an image the request leaves out.
C13_ImageUnderOpenAIRefused ==
  [][ \A c \in inflight' \ inflight :
        (~c.orphan /\ c.path = "openaiChat") =>
          Last(c.updatedMessages).imageData = NoImage ]_vars

\* under Index the case cannot arise: no image is pending under OpenAI
ImageOnlyPendingUnderGemini ==
  (variant = "multi" /\ mounted /\ apiType = "openai") => imageData = NoImage

\* C14: a submit is dropped as a no-op exactly when the trimmed text is empty
\* and no image is pending; with empty text and a pending image it is accepted
\* and its User message carries the image; no stored User message has both
\* empty text and no image.
C14_NoOpSubmitOnlyWhenNothingToSend ==
  [][ /\ event'.op = "ignored" =>
           (~Truthy(Trim(inputValue)) /\ imageData = NoImage)
      /\ event'.op = "sent" =>
           /\ Truthy(Trim(inputValue)) \/ imageData # NoImage
           /\ Last(messages').imageData = imageData
      /\ \A i \in 1..Len(messages') :
           messages'[i].role = "user" =>
             (Truthy(messages'[i].content)
                \/ messages'[i].imageData # NoImage) ]_vars

\* s occurs in t as a contiguous piece
Contains(s, t) ==
  \E i \in 1..(Len(t) - Len(s) + 1) : SubSeq(t, i, i + Len(s) - 1) = s

\* the text of a message handed to the serializer of either revision
MessageText(msg) ==
  IF wire.revision = "current" THEN msg.content ELSE msg.content.text

\* the parts of the n-th serialized turn that are of the given kind
PartsOf(n, kind) ==
  { j \in 1..Len(wire.contents[n].parts) :
      wire.contents[n].parts[j].kind = kind }

\* the serializer has been run on a conversation
Serialized == wire.stage = "request" /\ wire.method = "generateResponse"

\* the place among the non-System messages of the message at index i
TurnOf(msgs, i) == Cardinality({ j \in NonSystemIndexes(msgs) : j <= i })

\* C15: when a conversation holds a System message with non-empty text and a
\* User message, the serialized payload has no turn for the System message,
\* the text part of the first User message's turn is the System text, the
\* separator and the message's text, and no other turn holds the System text.
\* (Stated of the current serializer; the earlier one folds nothing at all.)
C15_SystemTextFoldedOnce ==
  (Serialized /\ wire.revision = "current") =>
    LET msgs == wire.messages
        systems == { i \in 1..Len(msgs) : msgs[i].role = "system" }
        users == { i \in 1..Len(msgs) : msgs[i].role = "user" }
    IN ( /\ systems # {}
         /\ users # {}
         /\ \A i \in systems : Truthy(MessageText(msgs[i])) ) =>
           LET first == CHOOSE i \in users : \A j \in users : i <= j
               systemText ==
                 MessageText(msgs[CHOOSE i \in systems :
                                    \A j \in systems : i <= j])
               folded == TurnOf(msgs, first)
           IN /\ Len(wire.contents) = Cardinality(NonSystemIndexes(msgs))
              /\ \E j \in PartsOf(folded, "text") :
                   wire.contents[folded].parts[j].text =
                     systemText \o Separator \o MessageText(msgs[first])
              /\ \A n \in 1..Len(wire.contents) :
                   n # folded =>
                     \A j \in PartsOf(n, "text") :
                       ~Contains(systemText, wire.contents[n].parts[j].text)

\* t ends with s
EndsWith(t, s) ==
  Len(s) <= Len(t) /\ SubSeq(t, Len(t) - Len(s) + 1, Len(t)) = s

\* C16: the serializer emits exactly one turn per non-System message, in
\* conversation order, with role "model" for an Assistant message and "user"
\* for any other, and every turn has a text part (which ends with the text of
\* its message).
C16_OneTurnPerNonSystemMessage ==
  Serialized =>
    LET msgs == wire.messages
    IN /\ Len(wire.contents) = Cardinality(NonSystemIndexes(msgs))
       /\ \A i \in NonSystemIndexes(msgs) :
            LET n == TurnOf(msgs, i)
            IN /\ wire.contents[n].role =
                    (IF msgs[i].role = "assistant" THEN "model" ELSE "user")
               /\ PartsOf(n, "text") # {}
               /\ \A j \in PartsOf(n, "text") :
                    EndsWith(wire.contents[n].parts[j].text,
                             MessageText(msgs[i]))

\* C17: every serialized turn has at most one inline-image part, and a
\* pendingImage handed to the serializer is attached to the turn of the last
\* User message of the conversation and to no other turn.
C17_AtMostOneImagePartPerTurn ==
  Serialized =>
    LET msgs == wire.messages
        users == { i \in 1..Len(msgs) : msgs[i].role = "user" }
    IN /\ \A n \in 1..Len(wire.contents) :
            Cardinality(PartsOf(n, "inlineData")) <= 1
       /\ (wire.revision = "earlier" /\ wire.imageData # NoImage) =>
            \A i \in NonSystemIndexes(msgs) :
              LET own == IF msgs[i].content.type = "image" THEN 1 ELSE 0
                  pending == IF i \in users /\ \A j \in users : j <= i
                               THEN 1 ELSE 0
              IN Cardinality(PartsOf(TurnOf(msgs, i), "inlineData")) =
                   own + pending

\* a method of GeminiService has returned or thrown
Answered == wire.stage = "outcome"

\* C18: on a 2xx response with a JSON body both Gemini calls return
\* candidates[0].content.parts[0].text when it is there, and throw their
\* invalid-format error, returning nothing, when candidates, candidates[0],
\* its content.parts or a first part is missing.
C18_ExtractReplyOrFormatError ==
  (Answered /\ wire.raw.net /\ wire.raw.ok /\ wire.raw.json) =>
    IF wire.raw.shape = "text"
      THEN wire.result.ok /\ wire.result.text = wire.raw.text
      ELSE /\ ~wire.result.ok
           /\ wire.result.text = <<>>
           /\ wire.result.error =
                (IF wire.method = "generateResponseWithImage"
                   THEN "Invalid response format from Gemini Vision API"
                   ELSE "Invalid response format from Gemini API")

\* the vision call has thrown on a 2xx response whose parts list is empty
C18_Reached ==
  /\ Answered
  /\ wire.method = "generateResponseWithImage"
  /\ wire.raw.ok
  /\ wire.raw.shape = "emptyParts"
  /\ ~wire.result.ok

\* C19: when the response that comes back to a mounted ChatInterface is well
\* formed and its reply text is the empty string, the call has succeeded: an
\* Assistant message with empty text is the last of the log, no error toast is
\* shown and isLoading is false.
C19_EmptyReplyIsSuccess ==
  ( /\ event.raw.net
    /\ event.raw.ok
    /\ event.raw.json
    /\ event.raw.shape = "text"
    /\ event.raw.text = <<>> ) =>
      /\ event.op = "resolved"
      /\ event.toast = NoToast
      /\ Last(messages).role = "assistant"
      /\ Last(messages).content = <<>>
      /\ Last(messages).sub = event.sub
      /\ ~isLoading

\* Gemini has answered a submit with an empty reply text
C19_Reached ==
  /\ variant = "multi"
  /\ apiType = "gemini"
  /\ event.op = "resolved"
  /\ event.raw.shape = "text"
  /\ event.raw.text = <<>>
  /\ Last(messages).content = <<>>

\* C20: on a non-2xx response the message that sendMessage's catch surfaces is
\* the provider's error.message when the body carries one, and otherwise the
\* fallback of the call that failed, also when the error body is missing or
\* cannot be parsed.
C20_NonOkSurfacesProviderMessageOrFallback ==
  (Answered /\ wire.raw.net /\ ~wire.raw.ok) =>
    /\ ~wire.result.ok
    /\ CatchToast(wire.result.error) =
         (IF wire.raw.json /\ wire.raw.errMsg # ""
            THEN wire.raw.errMsg
            ELSE IF wire.method = "generateResponseWithImage"
              THEN "Failed to get response from Gemini Vision API"
              ELSE "Failed to get response from Gemini API")

\* C21: speech input is never submitted on its own.  The step in which a
\* listening session ends copies the transcript into the input and does nothing
\* else: it appends no message and issues no call.  While the session is
\* active a transcript delivered by the recognition leaves the input alone.
C21_SpeechNeverAutoSubmitted ==
  [][ (mounted /\ mounted' /\ isListening) =>
        /\ ~isListening' =>
             /\ inputValue' = IF Truthy(transcript) THEN transcript
                              ELSE inputValue
             /\ messages' = messages
             /\ inflight' = inflight
             /\ submits' = submits
        /\ (transcript' # transcript /\ transcript' # <<>>) =>
             inputValue' = inputValue ]_vars

\* C22: when a listening session is stopped while its transcript is empty, the
\* input keeps the text it held.
C22_EmptyTranscriptKeepsInput ==
  [][ (mounted /\ mounted' /\ isListening /\ ~isListening'
         /\ transcript = <<>>) => inputValue' = inputValue ]_vars

\* a session has just been stopped with an empty transcript and typed text in
\* the input
C22_Reached ==
  /\ event.op = "micOff"
  /\ ~isListening
  /\ transcript = <<>>
  /\ Truthy(inputValue)

\* C23: the step that turns speech output off while an utterance is playing
\* also stops the utterance.
C23_ToggleOffStopsUtterance ==
  [][ (mounted /\ mounted' /\ audioEnabled /\ ~audioEnabled' /\ isSpeaking)
        => ~isSpeaking' ]_vars

\* output has just been turned off in the middle of an utterance
C23_Reached ==
  /\ event.op = "stopSpeaking"
  /\ ~audioEnabled
  /\ ~isSpeaking

\* C24: the reply of a settled call is spoken exactly when speech output is
\* enabled at the moment the reply is inserted, and a failed call speaks
\* nothing.
C24_ReplySpokenIffOutputEnabled ==
  [][ /\ event'.op = "resolved" =>
           isSpeaking' = (audioEnabled \/ isSpeaking)
      /\ event'.op = "rejected" => isSpeaking' = isSpeaking ]_vars

\* a step of the voice bridge: the microphone or the output toggle, a
\* transcript delivered by the recognition, the end of an utterance, or an
\* error reported by a speech hook
VoiceStep ==
  /\ mounted
  /\ mounted'
  /\ \/ isListening' # isListening
     \/ audioEnabled' # audioEnabled
     \/ transcript' # transcript /\ transcript' # <<>>
     \/ isSpeaking /\ ~isSpeaking'
     \/ event'.op \in {"speechError", "ttsError"}

\* C25: voice bridge events leave the message log and isLoading unchanged and
\* neither cancel nor add a call in flight; the log of a mounted ChatInterface
\* is written by sendMessage only.
C25_VoiceEventsLeaveChatAlone ==
  [][ /\ VoiceStep =>
           /\ messages' = messages
           /\ isLoading' = isLoading
           /\ inflight' = inflight
      /\ (mounted /\ mounted' /\ messages' # messages) =>
           event'.op \in {"sent", "resolved"} ]_vars

\* the provider the ChatInterface talks to: the apiType prop, and OpenAI in the
\* revision that has no such prop
ProviderIdentity == IF variant = "multi" THEN apiType ELSE "openai"

\* C26: a mounted ChatInterface holds a session exactly when the credential is
\* not empty; the session was built from the current credential and is of the
\* provider's kind; and every call was issued on the path of the kind of
\* session it went through.
C26_SessionMatchesCredentialAndProvider ==
  /\ mounted =>
       /\ (aiService # NoService) <=> (apiKey # NoKey)
       /\ aiService # NoService =>
            /\ aiService.key = apiKey
            /\ aiService.kind = ProviderIdentity
  /\ \A c \in inflight :
       /\ c.svc # NoService
       /\ (c.path = "openaiChat") <=> (c.svc.kind = "openai")
       /\ (c.path \in {"geminiChat", "vision"}) <=> (c.svc.kind = "gemini")

\* C27: isLoading is true exactly while a call issued by sendMessage for the
\* mounted ChatInterface is unresolved.
C27_LoadingIffCallOutstanding ==
  mounted => (isLoading <=> Outstanding # {})

\* C28: whenever ImageUpload is rendered it shows a preview exactly when
\* ChatInterface holds a pending image.
C28_PreviewIffPendingImage ==
  ImageUploadRendered => ((preview # NoPreview) <=> (imageData # NoImage))

\* the file handleImageChange turns away: not an image, or larger than 5 MB
Rejected(file) ==
  file.present /\ (~StartsWith(file.type, "image/") \/ file.size > MaxImageSize)

\* C29: a file that is not an image or is larger than 5 MB is turned away with
\* an error toast and leaves the preview and the pending image as they were;
\* a change event without a file and clearImage empty both; and of the steps
\* of ImageUpload only those and a read that finished change either of them.
C29_RejectedFileChangesNothing ==
  [][ ImageUploadRendered =>
        /\ event'.op = "imageChange" =>
             /\ Rejected(event'.file) =>
                  /\ event'.toast # NoToast
                  /\ preview' = preview
                  /\ imageData' = imageData
             /\ ~event'.file.present =>
                  /\ preview' = NoPreview
                  /\ imageData' = NoImage
        /\ event'.op = "imageCleared" =>
             /\ preview' = NoPreview
             /\ imageData' = NoImage
        /\ ( /\ event'.op \in {"imageChange", "imageLoaded", "imageError",
                               "imageCleared"}
             /\ << preview', imageData' >> # << preview, imageData >> ) =>
               \/ event'.op = "imageLoaded" /\ preview' # NoPreview
                                            /\ imageData' \in Images
               \/ event'.op = "imageCleared"
               \/ event'.op = "imageChange" /\ ~event'.file.present ]_vars

\* a file has just been turned away while an image was attached
C29_Reached ==
  /\ event.op = "imageChange"
  /\ Rejected(event.file)
  /\ event.toast # NoToast
  /\ preview # NoPreview
  /\ imageData \in Images

====
